---------------------------- MODULE Spec2Model ----------------------------
(***************************************************************************)
(* The to-do item collection of KubeTodo/todo-api, in its two variants:    *)
(*   - the in-memory variant (a package-level slice `todos`, handlers      *)
(*     getTodos / postTodo / putTodo / deleteTodo);                        *)
(*   - the persisted variant (type Database over an SQLite table `todos`,  *)
(*     and the four handlers registered by SetupRouter(db)).               *)
(* One request is one step: each handler runs to completion.               *)
(***************************************************************************)
EXTENDS Integers, Sequences, FiniteSets, TLC

VARIABLES
    variant,   \* which program is running: "memory" or "persisted"
    todos,     \* in-memory variant: the package-level slice of Todo
    rows,      \* persisted variant: the rows of table todos, in rowid order
    seq,       \* persisted variant: largest rowid ever used (AUTOINCREMENT)
    closed,    \* persisted variant: Database.Close() has been called
    req,       \* the last HTTP request served
    resp,      \* the response written for it
    calls,     \* persisted variant: the backend calls made while serving it
    ret,       \* the result of the last direct call of a Database method
    created,   \* persisted variant: the ids CreateTodo has returned, oldest first
    peer,      \* both variants side by side: the in-memory variant's response
               \* to the request the persisted variant is serving
    inflight   \* concurrent requests: for each handler goroutine, where it
               \* is in its handler and its local variables

vars ==
    <<variant, todos, rows, seq, closed, req, resp, calls, ret, created, peer,
      inflight>>

(***************************************************************************)
(* Bounds of the model.                                                    *)
(***************************************************************************)
\* No create is served once the collection holds MaxItems items.
MaxItems == 3
\* No row is inserted once the AUTOINCREMENT sequence has reached MaxSeq.
MaxSeq == 3

(***************************************************************************)
(* HTTP status codes used by the handlers.                                 *)
(***************************************************************************)
StatusOK == 200
StatusCreated == 201
StatusBadRequest == 400
StatusNotFound == 404
StatusInternalServerError == 500

(***************************************************************************)
(* Todo, and a *Todo that may be nil: <<>> is nil, <<t>> points to t.      *)
(***************************************************************************)
Todo(id, title, done) == [ID |-> id, Title |-> title, Done |-> done]

ZeroTodo == Todo(0, "", FALSE)

Nil == <<>>

Ptr(t) == <<t>>

\* The ids of a sequence of Todo, as a set.
IDs(s) == {s[i].ID : i \in 1..Len(s)}

\* The largest id of a sequence of rows, 0 for none.
MaxRowID(s) == IF s = <<>> THEN 0 ELSE CHOOSE m \in IDs(s) : \A n \in IDs(s) : n <= m

\* No two positions of s carry the same id.
UniqueIDs(s) == \A i, j \in 1..Len(s) : s[i].ID = s[j].ID => i = j

(***************************************************************************)
(* strconv.Atoi on the path parameter.  A token is a sequence of           *)
(* characters; Atoi accepts an optional sign followed by decimal digits.   *)
(***************************************************************************)
DigitChars == <<"0", "1", "2", "3", "4", "5", "6", "7", "8", "9">>

IsDigit(c) == \E d \in 1..10 : DigitChars[d] = c

DigitVal(c) == (CHOOSE d \in 1..10 : DigitChars[d] = c) - 1

RECURSIVE DigitsVal(_, _)
DigitsVal(s, acc) ==
    IF s = <<>> THEN acc
    ELSE DigitsVal(Tail(s), acc * 10 + DigitVal(Head(s)))

Atoi(s) ==
    LET signed == s # <<>> /\ Head(s) \in {"+", "-"}
        digits == IF signed THEN Tail(s) ELSE s
    IN  IF digits = <<>> \/ \E i \in 1..Len(digits) : ~IsDigit(digits[i])
        THEN [ok |-> FALSE, val |-> 0]
        ELSE [ok |-> TRUE,
              val |-> IF signed /\ Head(s) = "-"
                      THEN 0 - DigitsVal(digits, 0)
                      ELSE DigitsVal(digits, 0)]

\* toInt of the in-memory variant: 0 when Atoi fails.
toInt(s) == IF Atoi(s).ok THEN Atoi(s).val ELSE 0

(***************************************************************************)
(* Request inputs.                                                         *)
(***************************************************************************)
\* The decimal token of a one-digit id.
Token(n) == <<DigitChars[n + 1]>>

\* The largest id a stored item can carry within the bounds.
MaxID == IF MaxItems > MaxSeq THEN MaxItems ELSE MaxSeq

\* Path parameters: every id the collection can hold, an id it never holds
\* and a token that is no number.
Tokens == {Token(n) : n \in 1..MaxID} \cup {<<"9", "9", "9">>, <<"a", "b", "c">>}

\* A request body: wf is whether it is well-formed JSON, has is the set of
\* keys present in the object.
Body(wf, has, id, title, done) ==
    [wf |-> wf, has |-> has, id |-> id, title |-> title, done |-> done]

NoBody == Body(FALSE, {}, 0, "", FALSE)

Bodies ==
    { NoBody,                                               \* {"title": "New", "done": }
      Body(TRUE, {"title", "done"}, 0, "New", FALSE),
      Body(TRUE, {"id", "title", "done"}, 1, "New", FALSE), \* a client-supplied id
      Body(TRUE, {"done"}, 0, "", TRUE) }                   \* no title

\* Mutant of ShouldBindJSON: the decoding error is dropped and the zero
\* Todo is used.
ShouldBindJSONLenient(b) ==
    [err |-> FALSE,
     todo |-> IF ~b.wf THEN ZeroTodo
              ELSE Todo(IF "id" \in b.has THEN b.id ELSE 0,
                        IF "title" \in b.has THEN b.title ELSE "",
                        IF "done" \in b.has THEN b.done ELSE FALSE)]

\* c.ShouldBindJSON(&t) into a zero Todo: absent keys keep the zero value;
\* the struct carries no binding tags, so no key is required.
ShouldBindJSON(b) ==
    IF ~b.wf THEN [err |-> TRUE, todo |-> ZeroTodo]
    ELSE [err |-> FALSE,
          todo |-> Todo(IF "id" \in b.has THEN b.id ELSE 0,
                        IF "title" \in b.has THEN b.title ELSE "",
                        IF "done" \in b.has THEN b.done ELSE FALSE)]

Request(method, tok, body) == [method |-> method, tok |-> tok, body |-> body]

NoRequest == Request("none", <<>>, NoBody)

\* A response: the status, the item of the JSON body (nil when the body is
\* no item) and the list of the JSON body (GET only).
Response(status, todo, list) == [status |-> status, todo |-> todo, list |-> list]

NoResponse == Response(0, Nil, <<>>)

\* The result of a direct call: the method, its id argument, whether the
\* storage engine was made to fail it, and what it returned.
NoReturn ==
    [op |-> "none", id |-> 0, fault |-> FALSE, todo |-> Nil, err |-> FALSE]

\* The handler goroutines that can run at the same time.
Goroutines == {"g1", "g2"}

\* A goroutine's position in its handler (pc), the request it serves, its
\* local Todo (newTodo or updatedTodo), the slice value its append has read
\* (old) and the response it has written.
InFlight(pc, r, todo, old, response) ==
    [pc |-> pc, req |-> r, todo |-> todo, old |-> old, resp |-> response]

\* A goroutine that serves no request.
Idle == InFlight("idle", NoRequest, ZeroTodo, <<>>, NoResponse)

\* A goroutine whose handler has returned.
Done(r, response) == InFlight("done", r, ZeroTodo, <<>>, response)

(***************************************************************************)
(* In-memory variant.                                                      *)
(***************************************************************************)
SeedTodos == <<Todo(1, "Learn Go", FALSE), Todo(2, "Set up CI/CD", FALSE)>>

\* Mutant of FirstIndex: the scan does not stop at the first match, so the
\* last matching index is the one acted on.
LastIndex(s, id) ==
    IF \E i \in 1..Len(s) : s[i].ID = id
    THEN CHOOSE i \in 1..Len(s) :
            s[i].ID = id /\ \A j \in (i + 1)..Len(s) : s[j].ID # id
    ELSE 0

\* The index of the first element of s with the given id, 0 when there is
\* none: the `for i, todo := range todos { if todo.ID == id` scan.
FirstIndex(s, id) ==
    IF \E i \in 1..Len(s) : s[i].ID = id
    THEN CHOOSE i \in 1..Len(s) :
            s[i].ID = id /\ \A j \in 1..(i - 1) : s[j].ID # id
    ELSE 0

\* Mutant of RemoveAt: the last element is moved into the hole and the
\* slice is cut by one.
RemoveAtSwap(s, i) ==
    IF i = Len(s) THEN SubSeq(s, 1, Len(s) - 1)
    ELSE SubSeq([s EXCEPT ![i] = s[Len(s)]], 1, Len(s) - 1)

\* append(s[:i], s[i+1:]...), with i counted from 1.
RemoveAt(s, i) == SubSeq(s, 1, i - 1) \o SubSeq(s, i + 1, Len(s))

MemoryFrame ==
    UNCHANGED <<variant, rows, seq, closed, calls, ret, created, peer, inflight>>

getTodos ==
    /\ variant = "memory"
    /\ req' = Request("GET", <<>>, NoBody)
    /\ resp' = Response(StatusOK, Nil, todos)
    /\ UNCHANGED todos
    /\ MemoryFrame

\* Mutant of NextMemoryID: one more than the largest id in use.
NextMemoryIDMax(s) == MaxRowID(s) + 1

\* The id postTodo assigns.
NextMemoryID(s) == Len(s) + 1

\* Mutant of AssignID: an id the body supplies is kept.
AssignIDUnlessGiven(bound) ==
    IF bound.ID # 0 THEN bound ELSE [bound EXCEPT !.ID = NextMemoryID(todos)]

\* newTodo.ID = len(todos) + 1: the item postTodo stores for a bound body.
AssignID(bound) == [bound EXCEPT !.ID = NextMemoryID(todos)]

postTodo(body) ==
    /\ variant = "memory"
    /\ Len(todos) < MaxItems
    /\ req' = Request("POST", <<>>, body)
    /\ LET b == ShouldBindJSON(body) IN
       IF b.err
       THEN /\ resp' = Response(StatusBadRequest, Nil, <<>>)
            /\ UNCHANGED todos
       ELSE LET newTodo == AssignID(b.todo) IN
            /\ todos' = Append(todos, newTodo)
            /\ resp' = Response(StatusCreated, Ptr(newTodo), <<>>)
    /\ MemoryFrame

\* Mutant of PutElement: the bound body replaces the element, id included.
PutElementWhole(old, updatedTodo) == updatedTodo

\* The element putTodo writes at the matching index.
PutElement(old, updatedTodo) ==
    [old EXCEPT !.Title = updatedTodo.Title, !.Done = updatedTodo.Done]

putTodo(tok, body) ==
    /\ variant = "memory"
    /\ req' = Request("PUT", tok, body)
    /\ LET b == ShouldBindJSON(body)
           i == FirstIndex(todos, toInt(tok)) IN
       IF b.err
       THEN /\ resp' = Response(StatusBadRequest, Nil, <<>>)
            /\ UNCHANGED todos
       ELSE IF i = 0
       THEN /\ resp' = Response(StatusNotFound, Nil, <<>>)
            /\ UNCHANGED todos
       ELSE /\ todos' = [todos EXCEPT ![i] = PutElement(todos[i], b.todo)]
            /\ resp' = Response(StatusOK, Ptr(todos'[i]), <<>>)
    /\ MemoryFrame

deleteTodo(tok) ==
    /\ variant = "memory"
    /\ req' = Request("DELETE", tok, NoBody)
    /\ LET i == FirstIndex(todos, toInt(tok)) IN
       IF i = 0
       THEN /\ resp' = Response(StatusNotFound, Nil, <<>>)
            /\ UNCHANGED todos
       ELSE /\ todos' = RemoveAt(todos, i)
            /\ resp' = Response(StatusOK, Nil, <<>>)
    /\ MemoryFrame

(***************************************************************************)
(* Persisted variant: type Database.  Every method runs one statement on   *)
(* the connection; the statement fails when the connection is closed or    *)
(* when the storage engine reports a failure (the argument fault).         *)
(***************************************************************************)
Fails(fault) == closed \/ fault

\* Which backend call of a request the storage engine fails, if any.
Faults == {"none", "lookup", "write"}

\* Mutant of NextRowID: a rowid table without AUTOINCREMENT, which gives one
\* more than the largest rowid now in the table.
NextRowIDNoAutoincrement == MaxRowID(rows) + 1

\* The rowid INSERT gives a new row of a table declared
\* INTEGER PRIMARY KEY AUTOINCREMENT: one more than the largest rowid the
\* table has ever held.
NextRowID == (IF seq > MaxRowID(rows) THEN seq ELSE MaxRowID(rows)) + 1

\* SELECT id, title, done FROM todos
GetTodos(fault) ==
    IF Fails(fault) THEN [err |-> TRUE, todos |-> <<>>]
    ELSE [err |-> FALSE, todos |-> rows]

\* INSERT INTO todos (title, done) VALUES (?, ?), then todo.ID = LastInsertId
CreateTodo(todo, fault) ==
    IF Fails(fault)
    THEN [err |-> TRUE, rows |-> rows, seq |-> seq, todo |-> todo]
    ELSE LET stored == [todo EXCEPT !.ID = NextRowID] IN
         [err |-> FALSE, rows |-> Append(rows, stored), seq |-> NextRowID,
          todo |-> stored]

\* Mutant of UpdateTodo: an upsert, which inserts the row when none matches.
UpdateTodoUpsert(id, updatedTodo, fault) ==
    IF Fails(fault) THEN [err |-> TRUE, rows |-> rows, todo |-> Nil]
    ELSE [err |-> FALSE,
          rows |-> IF id \in IDs(rows)
                   THEN [i \in 1..Len(rows) |->
                            IF rows[i].ID = id
                            THEN [updatedTodo EXCEPT !.ID = id] ELSE rows[i]]
                   ELSE Append(rows, [updatedTodo EXCEPT !.ID = id]),
          todo |-> Ptr([updatedTodo EXCEPT !.ID = id])]

\* Mutant of UpdateTodo: the statement sets the title only.
UpdateTodoTitleOnly(id, updatedTodo, fault) ==
    IF Fails(fault) THEN [err |-> TRUE, rows |-> rows, todo |-> Nil]
    ELSE [err |-> FALSE,
          rows |-> [i \in 1..Len(rows) |->
                       IF rows[i].ID = id
                       THEN [rows[i] EXCEPT !.Title = updatedTodo.Title]
                       ELSE rows[i]],
          todo |-> Ptr([updatedTodo EXCEPT !.ID = id])]

\* UPDATE todos SET title = ?, done = ? WHERE id = ?, then the argument is
\* returned with ID = id, whether or not a row matched.
UpdateTodo(id, updatedTodo, fault) ==
    IF Fails(fault) THEN [err |-> TRUE, rows |-> rows, todo |-> Nil]
    ELSE [err |-> FALSE,
          rows |-> [i \in 1..Len(rows) |->
                       IF rows[i].ID = id
                       THEN [rows[i] EXCEPT !.Title = updatedTodo.Title,
                                            !.Done = updatedTodo.Done]
                       ELSE rows[i]],
          todo |-> Ptr([updatedTodo EXCEPT !.ID = id])]

\* The rows of s whose id is not id, in order.
RECURSIVE WithoutID(_, _)
WithoutID(s, id) ==
    IF s = <<>> THEN <<>>
    ELSE IF Head(s).ID = id THEN WithoutID(Tail(s), id)
    ELSE <<Head(s)>> \o WithoutID(Tail(s), id)

\* Mutant of DeleteTodo: a delete that matched no row is an error.
DeleteTodoStrict(id, fault) ==
    IF Fails(fault) \/ id \notin IDs(rows) THEN [err |-> TRUE, rows |-> rows]
    ELSE [err |-> FALSE, rows |-> WithoutID(rows, id)]

\* DELETE FROM todos WHERE id = ?
DeleteTodo(id, fault) ==
    IF Fails(fault) THEN [err |-> TRUE, rows |-> rows]
    ELSE [err |-> FALSE, rows |-> WithoutID(rows, id)]

\* Mutant of GetTodoByID: sql.ErrNoRows is returned like any other error.
GetTodoByIDErrNoRows(id, fault) ==
    IF Fails(fault) \/ id \notin IDs(rows) THEN [err |-> TRUE, todo |-> Nil]
    ELSE [err |-> FALSE, todo |-> Ptr(rows[FirstIndex(rows, id)])]

\* SELECT id, title, done FROM todos WHERE id = ?; sql.ErrNoRows is (nil, nil)
GetTodoByID(id, fault) ==
    IF Fails(fault) THEN [err |-> TRUE, todo |-> Nil]
    ELSE IF id \in IDs(rows)
    THEN [err |-> FALSE, todo |-> Ptr(rows[FirstIndex(rows, id)])]
    ELSE [err |-> FALSE, todo |-> Nil]

\* db.conn.Close()
Close ==
    /\ variant = "persisted"
    /\ ~closed
    /\ closed' = TRUE
    /\ req' = NoRequest
    /\ resp' = NoResponse
    /\ calls' = <<>>
    /\ ret' = [NoReturn EXCEPT !.op = "Close"]
    /\ UNCHANGED <<variant, todos, rows, seq, created, peer, inflight>>

(***************************************************************************)
(* Persisted variant: the handlers SetupRouter(db) registers.              *)
(***************************************************************************)
\* One backend call of a request: the method, its id argument (0 when it
\* takes none) and how it ended.
Call(op, id, res) == [op |-> op, id |-> id, res |-> res]

LookupResult(g) ==
    IF g.err THEN "error" ELSE IF g.todo = Nil THEN "absent" ELSE "present"

WriteResult(w) == IF w.err THEN "error" ELSE "ok"

HandlerFrame ==
    UNCHANGED <<variant, todos, closed, peer, inflight>> /\ ret' = NoReturn

\* Mutant of GetTodosHandler: the error of GetTodos is dropped and the
\* (empty) result is sent with 200.
GetTodosHandlerIgnoresError(fault) ==
    /\ variant = "persisted"
    /\ req' = Request("GET", <<>>, NoBody)
    /\ LET g == GetTodos(fault) IN
       /\ calls' = <<Call("GetTodos", 0, WriteResult(g))>>
       /\ resp' = Response(StatusOK, Nil, g.todos)
    /\ UNCHANGED <<rows, seq, created>>
    /\ HandlerFrame

\* Mutant of GetTodosHandler: a failed GetTodos is tried a second time.
GetTodosHandlerRetries(fault) ==
    /\ variant = "persisted"
    /\ req' = Request("GET", <<>>, NoBody)
    /\ LET g == GetTodos(fault)
           again == GetTodos(FALSE) IN
       IF ~g.err
       THEN /\ calls' = <<Call("GetTodos", 0, WriteResult(g))>>
            /\ resp' = Response(StatusOK, Nil, g.todos)
       ELSE /\ calls' = <<Call("GetTodos", 0, WriteResult(g)),
                          Call("GetTodos", 0, WriteResult(again))>>
            /\ resp' = IF again.err
                       THEN Response(StatusInternalServerError, Nil, <<>>)
                       ELSE Response(StatusOK, Nil, again.todos)
    /\ UNCHANGED <<rows, seq, created>>
    /\ HandlerFrame

\* r.GET("/todos", ...)
GetTodosHandler(fault) ==
    /\ variant = "persisted"
    /\ req' = Request("GET", <<>>, NoBody)
    /\ LET g == GetTodos(fault) IN
       /\ calls' = <<Call("GetTodos", 0, WriteResult(g))>>
       /\ resp' = IF g.err
                  THEN Response(StatusInternalServerError, Nil, <<>>)
                  ELSE Response(StatusOK, Nil, g.todos)
    /\ UNCHANGED <<rows, seq, created>>
    /\ HandlerFrame

\* r.POST("/todos", ...)
PostTodosHandler(body, fault) ==
    /\ variant = "persisted"
    /\ seq < MaxSeq
    /\ req' = Request("POST", <<>>, body)
    /\ LET b == ShouldBindJSON(body)
           c == CreateTodo(b.todo, fault) IN
       IF b.err
       THEN /\ resp' = Response(StatusBadRequest, Nil, <<>>)
            /\ calls' = <<>>
            /\ UNCHANGED <<rows, seq, created>>
       ELSE /\ calls' = <<Call("CreateTodo", 0, WriteResult(c))>>
            /\ rows' = c.rows
            /\ seq' = c.seq
            /\ IF c.err
               THEN /\ resp' = Response(StatusInternalServerError, Nil, <<>>)
                    /\ UNCHANGED created
               ELSE /\ resp' = Response(StatusCreated, Ptr(c.todo), <<>>)
                    /\ created' = Append(created, c.todo.ID)
    /\ HandlerFrame

\* Mutant of PutTodosHandler: the `existingTodo == nil` test is missing.
PutTodosHandlerNoCheck(tok, body, fault) ==
    /\ variant = "persisted"
    /\ req' = Request("PUT", tok, body)
    /\ LET a == Atoi(tok)
           id == a.val
           b == ShouldBindJSON(body)
           existingTodo == GetTodoByID(id, fault = "lookup")
           updatedTodo == [b.todo EXCEPT !.ID = id]
           u == UpdateTodo(id, updatedTodo, fault = "write")
           lookup == Call("GetTodoByID", id, LookupResult(existingTodo)) IN
       IF ~a.ok \/ b.err
       THEN /\ resp' = Response(StatusBadRequest, Nil, <<>>)
            /\ calls' = <<>>
            /\ UNCHANGED rows
       ELSE IF existingTodo.err
       THEN /\ resp' = Response(StatusInternalServerError, Nil, <<>>)
            /\ calls' = <<lookup>>
            /\ UNCHANGED rows
       ELSE /\ calls' = <<lookup, Call("UpdateTodo", id, WriteResult(u))>>
            /\ rows' = u.rows
            /\ resp' = IF u.err
                       THEN Response(StatusInternalServerError, Nil, <<>>)
                       ELSE Response(StatusOK, Ptr(updatedTodo), <<>>)
    /\ UNCHANGED <<seq, created>>
    /\ HandlerFrame

\* r.PUT("/todos/:id", ...)
PutTodosHandler(tok, body, fault) ==
    /\ variant = "persisted"
    /\ req' = Request("PUT", tok, body)
    /\ LET a == Atoi(tok)
           id == a.val
           b == ShouldBindJSON(body)
           existingTodo == GetTodoByID(id, fault = "lookup")
           updatedTodo == [b.todo EXCEPT !.ID = id]
           u == UpdateTodo(id, updatedTodo, fault = "write")
           lookup == Call("GetTodoByID", id, LookupResult(existingTodo)) IN
       IF ~a.ok \/ b.err
       THEN /\ resp' = Response(StatusBadRequest, Nil, <<>>)
            /\ calls' = <<>>
            /\ UNCHANGED rows
       ELSE IF existingTodo.err
       THEN /\ resp' = Response(StatusInternalServerError, Nil, <<>>)
            /\ calls' = <<lookup>>
            /\ UNCHANGED rows
       ELSE IF existingTodo.todo = Nil
       THEN /\ resp' = Response(StatusNotFound, Nil, <<>>)
            /\ calls' = <<lookup>>
            /\ UNCHANGED rows
       ELSE /\ calls' = <<lookup, Call("UpdateTodo", id, WriteResult(u))>>
            /\ rows' = u.rows
            /\ resp' = IF u.err
                       THEN Response(StatusInternalServerError, Nil, <<>>)
                       ELSE Response(StatusOK, Ptr(updatedTodo), <<>>)
    /\ UNCHANGED <<seq, created>>
    /\ HandlerFrame

\* Mutant of DeleteTodosHandler: the lookup is missing.
DeleteTodosHandlerNoCheck(tok, fault) ==
    /\ variant = "persisted"
    /\ req' = Request("DELETE", tok, NoBody)
    /\ LET a == Atoi(tok)
           id == a.val
           d == DeleteTodo(id, fault = "write") IN
       IF ~a.ok
       THEN /\ resp' = Response(StatusBadRequest, Nil, <<>>)
            /\ calls' = <<>>
            /\ UNCHANGED rows
       ELSE /\ calls' = <<Call("DeleteTodo", id, WriteResult(d))>>
            /\ rows' = d.rows
            /\ resp' = IF d.err
                       THEN Response(StatusInternalServerError, Nil, <<>>)
                       ELSE Response(StatusOK, Nil, <<>>)
    /\ UNCHANGED <<seq, created>>
    /\ HandlerFrame

\* r.DELETE("/todos/:id", ...)
DeleteTodosHandler(tok, fault) ==
    /\ variant = "persisted"
    /\ req' = Request("DELETE", tok, NoBody)
    /\ LET a == Atoi(tok)
           id == a.val
           existingTodo == GetTodoByID(id, fault = "lookup")
           d == DeleteTodo(id, fault = "write")
           lookup == Call("GetTodoByID", id, LookupResult(existingTodo)) IN
       IF ~a.ok
       THEN /\ resp' = Response(StatusBadRequest, Nil, <<>>)
            /\ calls' = <<>>
            /\ UNCHANGED rows
       ELSE IF existingTodo.err
       THEN /\ resp' = Response(StatusInternalServerError, Nil, <<>>)
            /\ calls' = <<lookup>>
            /\ UNCHANGED rows
       ELSE IF existingTodo.todo = Nil
       THEN /\ resp' = Response(StatusNotFound, Nil, <<>>)
            /\ calls' = <<lookup>>
            /\ UNCHANGED rows
       ELSE /\ calls' = <<lookup, Call("DeleteTodo", id, WriteResult(d))>>
            /\ rows' = d.rows
            /\ resp' = IF d.err
                       THEN Response(StatusInternalServerError, Nil, <<>>)
                       ELSE Response(StatusOK, Nil, <<>>)
    /\ UNCHANGED <<seq, created>>
    /\ HandlerFrame

(***************************************************************************)
(* Persisted variant: Database methods called directly, as the package's   *)
(* tests call them, on any id and any item.                                *)
(***************************************************************************)
\* The ids a caller passes.
CallIDs == (1..MaxSeq) \cup {999}

\* The items a caller passes.
CallTodos == {ShouldBindJSON(b).todo : b \in {x \in Bodies : x.wf}}

DirectFrame ==
    /\ req' = NoRequest
    /\ resp' = NoResponse
    /\ calls' = <<>>
    /\ UNCHANGED <<variant, todos, closed, seq, created, peer, inflight>>

CallUpdateTodo(id, updatedTodo, fault) ==
    /\ variant = "persisted"
    /\ LET u == UpdateTodo(id, updatedTodo, fault) IN
       /\ rows' = u.rows
       /\ ret' = [op |-> "UpdateTodo", id |-> id, fault |-> fault,
                  todo |-> u.todo, err |-> u.err]
    /\ DirectFrame

CallDeleteTodo(id, fault) ==
    /\ variant = "persisted"
    /\ LET d == DeleteTodo(id, fault) IN
       /\ rows' = d.rows
       /\ ret' = [op |-> "DeleteTodo", id |-> id, fault |-> fault,
                  todo |-> Nil, err |-> d.err]
    /\ DirectFrame

CallGetTodoByID(id, fault) ==
    /\ variant = "persisted"
    /\ LET g == GetTodoByID(id, fault) IN
       ret' = [op |-> "GetTodoByID", id |-> id, fault |-> fault,
               todo |-> g.todo, err |-> g.err]
    /\ UNCHANGED rows
    /\ DirectFrame

(***************************************************************************)
(* Specification.                                                          *)
(***************************************************************************)
Init ==
    /\ variant \in {"memory", "persisted"}
    /\ todos = SeedTodos
    /\ rows = <<>>
    /\ seq = 0
    /\ closed = FALSE
    /\ req = NoRequest
    /\ resp = NoResponse
    /\ calls = <<>>
    /\ ret = NoReturn
    /\ created = <<>>
    /\ peer = NoResponse
    /\ inflight = [g \in Goroutines |-> Idle]

Next ==
    \/ getTodos
    \/ \E body \in Bodies : postTodo(body)
    \/ \E tok \in Tokens, body \in Bodies : putTodo(tok, body)
    \/ \E tok \in Tokens : deleteTodo(tok)
    \/ \E fault \in BOOLEAN : GetTodosHandler(fault)
    \/ \E body \in Bodies, fault \in BOOLEAN : PostTodosHandler(body, fault)
    \/ \E tok \in Tokens, body \in Bodies, fault \in Faults :
            PutTodosHandler(tok, body, fault)
    \/ \E tok \in Tokens, fault \in Faults : DeleteTodosHandler(tok, fault)
    \/ \E id \in CallIDs, t \in CallTodos, fault \in BOOLEAN :
            CallUpdateTodo(id, t, fault)
    \/ \E id \in CallIDs, fault \in BOOLEAN : CallDeleteTodo(id, fault)
    \/ \E id \in CallIDs, fault \in BOOLEAN : CallGetTodoByID(id, fault)
    \/ Close

Spec == Init /\ [][Next]_vars

(***************************************************************************)
(* Both variants side by side, for comparing them: they start from the     *)
(* same two items (the persisted table seeded as the package's tests seed  *)
(* it) and every request is served first by the in-memory variant, then    *)
(* by the persisted variant, whose storage engine does not fail.           *)
(***************************************************************************)
InitBoth ==
    /\ variant = "memory"
    /\ todos = SeedTodos
    /\ rows = SeedTodos
    /\ seq = Len(SeedTodos)
    /\ created = [i \in 1..Len(SeedTodos) |-> SeedTodos[i].ID]
    /\ closed = FALSE
    /\ req = NoRequest
    /\ resp = NoResponse
    /\ calls = <<>>
    /\ ret = NoReturn
    /\ peer = NoResponse
    /\ inflight = [g \in Goroutines |-> Idle]

\* The in-memory variant is to serve the next request.
MemoryTurn == variant = "memory" /\ req = NoRequest

\* The persisted variant is to serve the request the in-memory variant
\* has answered.
PersistedTurn == variant = "persisted" /\ resp = NoResponse

\* The request goes to the persisted variant; the in-memory variant's
\* response is kept.
Handover ==
    /\ variant = "memory" /\ req # NoRequest
    /\ variant' = "persisted"
    /\ peer' = resp
    /\ resp' = NoResponse
    /\ UNCHANGED <<todos, rows, seq, closed, req, calls, ret, created, inflight>>

\* Both variants have answered: the next request can come.
Handback ==
    /\ variant = "persisted" /\ resp # NoResponse
    /\ variant' = "memory"
    /\ req' = NoRequest
    /\ resp' = NoResponse
    /\ peer' = NoResponse
    /\ calls' = <<>>
    /\ UNCHANGED <<todos, rows, seq, closed, ret, created, inflight>>

NextBoth ==
    \/ MemoryTurn /\ getTodos
    \/ MemoryTurn /\ seq < MaxSeq /\ \E body \in Bodies : postTodo(body)
    \/ MemoryTurn /\ \E tok \in Tokens, body \in Bodies : putTodo(tok, body)
    \/ MemoryTurn /\ \E tok \in Tokens : deleteTodo(tok)
    \/ Handover
    \/ PersistedTurn /\ GetTodosHandler(FALSE) /\ req' = req
    \/ PersistedTurn /\ \E body \in Bodies :
            PostTodosHandler(body, FALSE) /\ req' = req
    \/ PersistedTurn /\ \E tok \in Tokens, body \in Bodies :
            PutTodosHandler(tok, body, "none") /\ req' = req
    \/ PersistedTurn /\ \E tok \in Tokens :
            DeleteTodosHandler(tok, "none") /\ req' = req
    \/ Handback

SpecBoth == InitBoth /\ [][NextBoth]_vars

(***************************************************************************)
(* Two requests served at the same time, each by its own goroutine.  No    *)
(* handler takes a lock.  In the persisted variant a PUT or DELETE handler *)
(* makes two backend calls, and the other goroutine can run between them;  *)
(* each backend call is one statement, which the storage engine runs       *)
(* atomically.  In the in-memory variant postTodo reads len(todos), and    *)
(* its append reads the slice and then writes it: three unsynchronised     *)
(* accesses of `todos`, between which the other goroutine can run.  `calls`*)
(* is the backend calls of both requests, in the order they ran.           *)
(***************************************************************************)
InitConcurrent ==
    /\ variant \in {"memory", "persisted"}
    /\ todos = SeedTodos
    /\ rows = SeedTodos
    /\ seq = Len(SeedTodos)
    /\ created = [i \in 1..Len(SeedTodos) |-> SeedTodos[i].ID]
    /\ closed = FALSE
    /\ req = NoRequest
    /\ resp = NoResponse
    /\ calls = <<>>
    /\ ret = NoReturn
    /\ peer = NoResponse
    /\ inflight = [g \in Goroutines |-> Idle]

ConcurrentFrame == UNCHANGED <<variant, seq, closed, req, resp, ret, created, peer>>

\* postTodo up to newTodo.ID = len(todos) + 1
PostReadLen(g, body) ==
    /\ variant = "memory"
    /\ inflight[g].pc = "idle"
    /\ LET r == Request("POST", <<>>, body)
           b == ShouldBindJSON(body) IN
       inflight' = [inflight EXCEPT ![g] =
           IF b.err THEN Done(r, Response(StatusBadRequest, Nil, <<>>))
           ELSE InFlight("assigned", r, AssignID(b.todo), <<>>, NoResponse)]
    /\ UNCHANGED <<todos, rows, calls>>
    /\ ConcurrentFrame

\* append(todos, newTodo) reads the slice
PostAppendRead(g) ==
    /\ variant = "memory"
    /\ inflight[g].pc = "assigned"
    /\ inflight' = [inflight EXCEPT ![g].pc = "appending", ![g].old = todos]
    /\ UNCHANGED <<todos, rows, calls>>
    /\ ConcurrentFrame

\* todos = append(...) writes the slice; then c.JSON(201, newTodo)
PostAppendWrite(g) ==
    /\ variant = "memory"
    /\ inflight[g].pc = "appending"
    /\ todos' = Append(inflight[g].old, inflight[g].todo)
    /\ inflight' = [inflight EXCEPT ![g] =
           Done(inflight[g].req,
                Response(StatusCreated, Ptr(inflight[g].todo), <<>>))]
    /\ UNCHANGED <<rows, calls>>
    /\ ConcurrentFrame

\* The PUT handler up to `existingTodo == nil`
PutLookup(g, tok, body, fault) ==
    /\ variant = "persisted"
    /\ inflight[g].pc = "idle"
    /\ LET r == Request("PUT", tok, body)
           a == Atoi(tok)
           id == a.val
           b == ShouldBindJSON(body)
           existingTodo == GetTodoByID(id, fault)
           updatedTodo == [b.todo EXCEPT !.ID = id]
           lookup == Call("GetTodoByID", id, LookupResult(existingTodo)) IN
       IF ~a.ok \/ b.err
       THEN /\ inflight' = [inflight EXCEPT ![g] =
                   Done(r, Response(StatusBadRequest, Nil, <<>>))]
            /\ UNCHANGED calls
       ELSE /\ calls' = Append(calls, lookup)
            /\ inflight' = [inflight EXCEPT ![g] =
                   IF existingTodo.err
                   THEN Done(r, Response(StatusInternalServerError, Nil, <<>>))
                   ELSE IF existingTodo.todo = Nil
                   THEN Done(r, Response(StatusNotFound, Nil, <<>>))
                   ELSE InFlight("found", r, updatedTodo, <<>>, NoResponse)]
    /\ UNCHANGED <<todos, rows>>
    /\ ConcurrentFrame

\* The PUT handler from db.UpdateTodo(id, updatedTodo) on
PutWrite(g, fault) ==
    /\ variant = "persisted"
    /\ inflight[g].pc = "found" /\ inflight[g].req.method = "PUT"
    /\ LET id == inflight[g].todo.ID
           u == UpdateTodo(id, inflight[g].todo, fault) IN
       /\ rows' = u.rows
       /\ calls' = Append(calls, Call("UpdateTodo", id, WriteResult(u)))
       /\ inflight' = [inflight EXCEPT ![g] =
              Done(inflight[g].req,
                   IF u.err
                   THEN Response(StatusInternalServerError, Nil, <<>>)
                   ELSE Response(StatusOK, Ptr(inflight[g].todo), <<>>))]
    /\ UNCHANGED todos
    /\ ConcurrentFrame

\* The DELETE handler up to `existingTodo == nil`
DeleteLookup(g, tok, fault) ==
    /\ variant = "persisted"
    /\ inflight[g].pc = "idle"
    /\ LET r == Request("DELETE", tok, NoBody)
           a == Atoi(tok)
           id == a.val
           existingTodo == GetTodoByID(id, fault)
           lookup == Call("GetTodoByID", id, LookupResult(existingTodo)) IN
       IF ~a.ok
       THEN /\ inflight' = [inflight EXCEPT ![g] =
                   Done(r, Response(StatusBadRequest, Nil, <<>>))]
            /\ UNCHANGED calls
       ELSE /\ calls' = Append(calls, lookup)
            /\ inflight' = [inflight EXCEPT ![g] =
                   IF existingTodo.err
                   THEN Done(r, Response(StatusInternalServerError, Nil, <<>>))
                   ELSE IF existingTodo.todo = Nil
                   THEN Done(r, Response(StatusNotFound, Nil, <<>>))
                   ELSE InFlight("found", r, existingTodo.todo[1], <<>>,
                                 NoResponse)]
    /\ UNCHANGED <<todos, rows>>
    /\ ConcurrentFrame

\* The DELETE handler from db.DeleteTodo(id) on
DeleteWrite(g, fault) ==
    /\ variant = "persisted"
    /\ inflight[g].pc = "found" /\ inflight[g].req.method = "DELETE"
    /\ LET id == Atoi(inflight[g].req.tok).val
           d == DeleteTodo(id, fault) IN
       /\ rows' = d.rows
       /\ calls' = Append(calls, Call("DeleteTodo", id, WriteResult(d)))
       /\ inflight' = [inflight EXCEPT ![g] =
              Done(inflight[g].req,
                   IF d.err
                   THEN Response(StatusInternalServerError, Nil, <<>>)
                   ELSE Response(StatusOK, Nil, <<>>))]
    /\ UNCHANGED todos
    /\ ConcurrentFrame

NextConcurrent ==
    \/ \E g \in Goroutines, body \in Bodies : PostReadLen(g, body)
    \/ \E g \in Goroutines : PostAppendRead(g)
    \/ \E g \in Goroutines : PostAppendWrite(g)
    \/ \E g \in Goroutines, tok \in Tokens, body \in Bodies, fault \in BOOLEAN :
            PutLookup(g, tok, body, fault)
    \/ \E g \in Goroutines, fault \in BOOLEAN : PutWrite(g, fault)
    \/ \E g \in Goroutines, tok \in Tokens, fault \in BOOLEAN :
            DeleteLookup(g, tok, fault)
    \/ \E g \in Goroutines, fault \in BOOLEAN : DeleteWrite(g, fault)

SpecConcurrent == InitConcurrent /\ [][NextConcurrent]_vars

(***************************************************************************)
(* Properties.                                                             *)
(***************************************************************************)
\* The collection of the running variant, in list order.
Collection == IF variant = "memory" THEN todos ELSE rows

\* The id a request's path parameter denotes.
PathID(r) == Atoi(r.tok).val

\* s is strictly increasing.
StrictlyIncreasing(s) == \A i, j \in 1..Len(s) : i < j => s[i] < s[j]

\* The calls of the last request that went to the given backend method.
CallsOf(op) == {i \in 1..Len(calls) : calls[i].op = op}

\* C1: in the in-memory variant no two stored items share an id, in every
\* state reachable from the seed by POST, PUT and DELETE requests.
MemoryIDsUnique == variant = "memory" => UniqueIDs(todos)

\* C2: in the persisted variant the ids returned by successive successful
\* creates are strictly increasing, no two stored rows share an id, and
\* every stored id is one a create returned; so the id of a deleted row,
\* which a create returned earlier, is never given to a later row.
CreatedIDsStrictlyIncreasing ==
    variant = "persisted" =>
        /\ StrictlyIncreasing(created)
        /\ UniqueIDs(rows)
        /\ IDs(rows) \subseteq {created[i] : i \in 1..Len(created)}

\* C2 witness: the row with id 1 was deleted and the create served last
\* returned id 2.
CreateAfterDelete ==
    /\ variant = "persisted"
    /\ req.method = "POST" /\ resp.status = StatusCreated
    /\ created = <<1, 2>>
    /\ IDs(rows) = {2}

\* C3: persisted PUT: UpdateTodo is called only after GetTodoByID for the
\* id of the path returned a present item in the same request; an absent
\* lookup gives 404, a failed lookup gives 500, and in both cases
\* UpdateTodo is not called.
PutLooksUpBeforeUpdate ==
    (variant = "persisted" /\ req.method = "PUT") =>
        /\ \A i \in CallsOf("UpdateTodo") :
              /\ calls[i].id = PathID(req)
              /\ \E j \in 1..(i - 1) :
                    calls[j] = Call("GetTodoByID", PathID(req), "present")
        /\ \A j \in CallsOf("GetTodoByID") :
              /\ calls[j].res = "absent" =>
                    resp.status = StatusNotFound /\ CallsOf("UpdateTodo") = {}
              /\ calls[j].res = "error" =>
                    /\ resp.status = StatusInternalServerError
                    /\ CallsOf("UpdateTodo") = {}

\* C3 witness: a PUT that found its item and then updated it.
PutUpdatedAfterLookup ==
    /\ variant = "persisted" /\ req.method = "PUT"
    /\ resp.status = StatusOK
    /\ Len(calls) = 2 /\ calls[2].op = "UpdateTodo"

\* C4: persisted DELETE: DeleteTodo is called only after GetTodoByID for
\* the id of the path returned a present item in the same request; an
\* absent lookup gives 404, a failed lookup gives 500, and in both cases
\* DeleteTodo is not called.
DeleteLooksUpBeforeDelete ==
    (variant = "persisted" /\ req.method = "DELETE") =>
        /\ \A i \in CallsOf("DeleteTodo") :
              /\ calls[i].id = PathID(req)
              /\ \E j \in 1..(i - 1) :
                    calls[j] = Call("GetTodoByID", PathID(req), "present")
        /\ \A j \in CallsOf("GetTodoByID") :
              /\ calls[j].res = "absent" =>
                    resp.status = StatusNotFound /\ CallsOf("DeleteTodo") = {}
              /\ calls[j].res = "error" =>
                    /\ resp.status = StatusInternalServerError
                    /\ CallsOf("DeleteTodo") = {}

\* C4 witness: a DELETE that found its item and then deleted it.
DeleteDeletedAfterLookup ==
    /\ variant = "persisted" /\ req.method = "DELETE"
    /\ resp.status = StatusOK
    /\ Len(calls) = 2 /\ calls[2].op = "DeleteTodo"

\* The step serves a PUT (with a well-formed body) or a DELETE whose path
\* id is a number that no stored item carries.
UnknownIDStep ==
    /\ req'.method \in {"PUT", "DELETE"}
    /\ Atoi(req'.tok).ok
    /\ req'.method = "PUT" => req'.body.wf
    /\ PathID(req') \notin IDs(Collection)

\* C5 as stated: in both variants such a request responds 404 and leaves
\* the collection exactly as it was.
UnknownIDGives404 ==
    [][UnknownIDStep =>
          resp'.status = StatusNotFound /\ Collection' = Collection]_vars

\* C5 as amended: such a request leaves the collection exactly as it was
\* and responds 404, except that the persisted variant responds 500 when
\* the lookup itself fails with a backend error.
UnknownIDGives404UnlessLookupFails ==
    [][UnknownIDStep =>
          /\ Collection' = Collection
          /\ resp'.status =
                IF variant = "persisted" /\ calls'[1].res = "error"
                THEN StatusInternalServerError
                ELSE StatusNotFound]_vars

\* C5 witness: a 404 for a numeric id, with items in the collection.
UnknownIDAnswered ==
    /\ req.method \in {"PUT", "DELETE"}
    /\ Atoi(req.tok).ok
    /\ resp.status = StatusNotFound
    /\ Collection # <<>>

\* C6: a successful update of id k changes one item, which had id k, to
\* id k with the title and done of the body; every other item and the
\* order are as before, and the item in the response carries id k and the
\* same title and done, whatever id the body carries.
UpdateKeepsID ==
    [][(req'.method = "PUT" /\ resp'.status = StatusOK) =>
          LET k == PathID(req')
              b == ShouldBindJSON(req'.body).todo
              after == Todo(k, b.Title, b.Done)
          IN  /\ resp'.todo = Ptr(after)
              /\ Len(Collection') = Len(Collection)
              /\ \E i \in 1..Len(Collection) :
                    /\ Collection[i].ID = k
                    /\ Collection'[i] = after
                    /\ \A j \in 1..Len(Collection) :
                          j # i => Collection'[j] = Collection[j]]_vars

\* C6 witness: PUT /todos/2 with a body that carries id 1 answered 200.
UpdatedWithForeignID ==
    /\ req.method = "PUT" /\ resp.status = StatusOK
    /\ PathID(req) = 2
    /\ "id" \in req.body.has /\ req.body.id = 1

\* A lookup by id reports absent: the scan of the list finds nothing
\* (in-memory), GetTodoByID returns (nil, nil) (persisted).
LookupAbsent(id) ==
    IF variant = "memory" THEN FirstIndex(todos, id) = 0
    ELSE GetTodoByID(id, FALSE) = [err |-> FALSE, todo |-> Nil]

\* C7: once a DELETE of a present id has responded 200, a lookup by that
\* id reports absent (here: in the state the DELETE leaves, before any
\* create).
DeletedIDIsAbsent ==
    (req.method = "DELETE" /\ resp.status = StatusOK) => LookupAbsent(PathID(req))

\* The step is a delete: a DELETE request or a direct DeleteTodo call.
DeleteStep == req'.method = "DELETE" \/ ret'.op = "DeleteTodo"

\* C8: every successful create adds exactly one item, and every step that
\* is neither a successful create nor a delete (updates, failed requests,
\* lookups) leaves the number of items as it was, so N successful creates
\* with no delete in between take M items to M + N; a successful list
\* returns exactly the stored items.
CreatesAddOneEach ==
    [][/\ resp'.status = StatusCreated => Len(Collection') = Len(Collection) + 1
       /\ (resp'.status # StatusCreated /\ ~DeleteStep) =>
             Len(Collection') = Len(Collection)
       /\ (req'.method = "GET" /\ resp'.status = StatusOK) =>
             resp'.list = Collection']_vars

\* C8 witness: a list served when creates have grown the collection past
\* the seed, with an update among the rows.
ListAfterCreates ==
    /\ req.method = "GET" /\ resp.status = StatusOK
    /\ Len(resp.list) = 3
    /\ \E i \in 1..Len(resp.list) : resp.list[i].Done

\* C9: in the in-memory variant every successful POST gives the new item,
\* stored last and returned, id = (number of items before the POST) + 1.
PostAssignsLenPlusOne ==
    [][(variant = "memory" /\ req'.method = "POST"
            /\ resp'.status = StatusCreated) =>
          /\ resp'.todo[1].ID = Len(todos) + 1
          /\ todos' = Append(todos, resp'.todo[1])
          /\ (todos = SeedTodos => resp'.todo[1].ID = 3)
          /\ (IDs(todos) = {1} /\ Len(todos) = 1 => resp'.todo[1].ID = 2)]_vars

\* C9 witness: the POST after deleting id 2 from {1, 2} returned id 2.
PostAfterDeleteGotTwo ==
    /\ variant = "memory"
    /\ req.method = "POST" /\ resp.status = StatusCreated
    /\ resp.todo[1].ID = 2
    /\ Len(todos) = 2 /\ todos[1] = SeedTodos[1]

\* C10: Database.UpdateTodo called with an id that is not in the store,
\* when the statement itself succeeds, returns a nil result.
UpdateTodoOfAbsentReturnsNil ==
    (ret.op = "UpdateTodo" /\ ~ret.err /\ ret.id \notin IDs(rows)) =>
        ret.todo = Nil

\* C11: the backend update never fabricates a record: a direct UpdateTodo
\* call with an id that is not in the store leaves the rows exactly as
\* they were, so no row with that id exists afterwards.
UpdateOfAbsentAddsNothing ==
    [][(ret'.op = "UpdateTodo" /\ ret'.id \notin IDs(rows)) =>
          rows' = rows /\ ret'.id \notin IDs(rows')]_vars

\* C11 witness: UpdateTodo succeeded on an id that a non-empty store does
\* not hold.
UpdatedAbsentID ==
    /\ ret.op = "UpdateTodo" /\ ~ret.err
    /\ rows # <<>>
    /\ ret.id \notin IDs(rows)

\* C12: GetTodoByID returns an error exactly when the store fails (the
\* connection is closed or the statement fails); otherwise it returns the
\* row of that id, and (nil, no error) when no row has it.
LookupTellsAbsentFromFailure ==
    ret.op = "GetTodoByID" =>
        /\ ret.err <=> (closed \/ ret.fault)
        /\ ret.err => ret.todo = Nil
        /\ (~ret.err /\ ret.id \notin IDs(rows)) => ret.todo = Nil
        /\ (~ret.err /\ ret.id \in IDs(rows)) =>
              \E i \in 1..Len(rows) : rows[i].ID = ret.id /\ ret.todo = Ptr(rows[i])

\* C12 witness: a lookup of an absent id in an open, non-empty store
\* returned (nil, nil).
LookedUpAbsentID ==
    /\ ret.op = "GetTodoByID" /\ ~closed /\ ~ret.fault
    /\ rows # <<>>
    /\ ret.id \notin IDs(rows)
    /\ ret.todo = Nil /\ ~ret.err

\* C13: DeleteTodo on an open store returns no error whether or not the id
\* is stored; when it is not stored the rows stay as they were; and a
\* second DeleteTodo of the same id returns no error and leaves the rows
\* the first one left.
DeleteIsIdempotent ==
    [][(ret'.op = "DeleteTodo" /\ ~closed /\ ~ret'.fault) =>
          /\ ~ret'.err
          /\ ret'.id \notin IDs(rows) => rows' = rows
          /\ ret'.id \notin IDs(rows')
          /\ (DeleteTodo(ret.id, FALSE))' = [err |-> FALSE, rows |-> rows']]_vars

\* C13 witness: a DeleteTodo of an id the open, non-empty store does not
\* hold returned no error.
DeletedAbsentID ==
    /\ ret.op = "DeleteTodo" /\ ~closed /\ ~ret.fault /\ ~ret.err
    /\ rows # <<>>
    /\ ret.id \notin IDs(rows)

\* The request is InvalidInput: a path id that is no number, or a body
\* that is not well-formed JSON.
InvalidInput(r) ==
    \/ r.method \in {"PUT", "DELETE"} /\ ~Atoi(r.tok).ok
    \/ r.method \in {"POST", "PUT"} /\ ~r.body.wf

\* A backend call of the last request returned an error.
BackendError == \E i \in 1..Len(calls) : calls[i].res = "error"

\* The lookup of the last request reported the id absent.
NotFound ==
    \E i \in 1..Len(calls) : calls[i].op = "GetTodoByID" /\ calls[i].res = "absent"

NonNumericIDGives400 ==
    [][(req'.method \in {"PUT", "DELETE"} /\ ~Atoi(req'.tok).ok) =>
          resp'.status = StatusBadRequest /\ Collection' = Collection]_vars

\* C16: a create whose well-formed body has no title is rejected with 400
\* and adds no item.
CreateWithoutTitleRejected ==
    [][(req'.method = "POST" /\ req'.body.wf /\ "title" \notin req'.body.has) =>
          resp'.status = StatusBadRequest /\ Collection' = Collection]_vars

\* C17: in both variants a POST or PUT with a malformed JSON body responds
\* 400, makes no CreateTodo or UpdateTodo call, and leaves every stored
\* item (and the id sequence) unchanged.
MalformedBodyWritesNothing ==
    [][(req'.method \in {"POST", "PUT"} /\ ~req'.body.wf) =>
          /\ resp'.status = StatusBadRequest
          /\ Collection' = Collection
          /\ seq' = seq
          /\ \A i \in 1..Len(calls') :
                calls'[i].op \notin {"CreateTodo", "UpdateTodo"}]_vars

\* C17 witness: a PUT for a stored id with a malformed body was answered
\* 400.
MalformedPutAnswered ==
    /\ req.method = "PUT" /\ ~req.body.wf
    /\ PathID(req) \in IDs(Collection)
    /\ resp.status = StatusBadRequest

\* Two well-formed bodies that differ at most in the id they carry.
SameButID(b1, b2) ==
    /\ b1.wf /\ b2.wf
    /\ b1.has \ {"id"} = b2.has \ {"id"}
    /\ b1.title = b2.title
    /\ b1.done = b2.done

\* The item a successful create of body b stores in the current state.
CreateOutcome(b) ==
    IF variant = "memory" THEN AssignID(ShouldBindJSON(b).todo)
    ELSE CreateTodo(ShouldBindJSON(b).todo, FALSE).todo

\* C18: the id of a created item is the server's choice: the item a
\* successful create returns and appends is the one a create from the same
\* state would store for any body that differs only in the id it carries,
\* so both creates yield the same id and the same collection.
CreateIgnoresBodyID ==
    [][(req'.method = "POST" /\ resp'.status = StatusCreated) =>
          \A b2 \in Bodies :
              SameButID(req'.body, b2) =>
                  /\ resp'.todo = Ptr(CreateOutcome(b2))
                  /\ Collection' = Append(Collection, CreateOutcome(b2))]_vars

\* C18 witness: a create whose body carried an id got another id.
CreatedWithClientID ==
    /\ req.method = "POST" /\ resp.status = StatusCreated
    /\ "id" \in req.body.has
    /\ resp.todo[1].ID # req.body.id

\* C19: no retries: while serving one request the persisted handlers call
\* each backend method at most once, and a backend call that returns an
\* error is the last call of the request, which is answered 500.
NoRetries ==
    variant = "persisted" =>
        /\ \A i, j \in 1..Len(calls) : i < j => calls[i].op # calls[j].op
        /\ \A i \in 1..Len(calls) :
              calls[i].res = "error" =>
                  i = Len(calls) /\ resp.status = StatusInternalServerError

\* C19 witness: a DELETE whose lookup succeeded and whose delete failed
\* was answered 500 after those two calls.
DeleteFailedOnDelete ==
    /\ variant = "persisted" /\ req.method = "DELETE"
    /\ Len(calls) = 2 /\ calls[1].res = "present" /\ calls[2].res = "error"
    /\ resp.status = StatusInternalServerError

\* C20: the backend is swappable: started from the same contents and given
\* the same requests, the persisted variant answers every request with the
\* status and the item data the in-memory variant answered it with.
BothVariantsAnswerAlike ==
    (variant = "persisted" /\ resp # NoResponse) =>
        /\ resp.status = peer.status
        /\ resp.todo = peer.todo
        /\ resp.list = peer.list

\* The ids of s, position by position.
IDSeq(s) == [i \in 1..Len(s) |-> s[i].ID]

\* C21: list returns the stored items in the order they were created
\* (which is primary-key order in the persisted variant): a create appends
\* its item after all others, an update leaves every item at its position,
\* a delete removes items without reordering the remaining ones, and a
\* successful GET returns the collection as stored.
ListKeepsCreationOrder ==
    [][/\ Len(Collection') > Len(Collection) =>
             \E x \in {Collection'[Len(Collection')]} :
                 Collection' = Append(Collection, x)
       /\ Len(Collection') = Len(Collection) =>
             IDSeq(Collection') = IDSeq(Collection)
       /\ Len(Collection') < Len(Collection) =>
             \E i \in 1..Len(Collection) :
                 Collection' = RemoveAt(Collection, i)
       /\ (req'.method = "GET" /\ resp'.status = StatusOK) =>
             resp'.list = Collection'
       /\ variant' = "persisted" => StrictlyIncreasing(IDSeq(rows'))]_vars

\* C21 witness: after a create, an update of item 2 and a delete of item
\* 1, the in-memory list is item 2 followed by the created item.
ListAfterUpdateAndDelete ==
    /\ variant = "memory"
    /\ req.method = "GET"
    /\ resp.list = <<Todo(2, "New", FALSE), Todo(3, "New", FALSE)>>


\* C22: persisted PUT answered 200: the item of the response is the row
\* stored under the id of the path when the request has completed, and it
\* carries that id with the title and done of the body.
PutReturnsStoredRecord ==
    (variant = "persisted" /\ req.method = "PUT" /\ resp.status = StatusOK) =>
        LET id == PathID(req)
            bound == ShouldBindJSON(req.body).todo IN
        /\ id \in IDs(rows)
        /\ resp.todo = Ptr(rows[FirstIndex(rows, id)])
        /\ resp.todo = Ptr(Todo(id, bound.Title, bound.Done))

\* C22 witness: a PUT of {"done": true} on row 2 was answered 200.
PutStoredDoneOnly ==
    /\ variant = "persisted"
    /\ req.method = "PUT" /\ PathID(req) = 2
    /\ resp = Response(StatusOK, Ptr(Todo(2, "", TRUE)), <<>>)


\* The goroutines serving a request of the given method for id k.
Serving(method, k) ==
    {g \in Goroutines : /\ inflight[g].req.method = method
                        /\ Atoi(inflight[g].req.tok) = [ok |-> TRUE, val |-> k]}

\* The backend deleted id k and later ran an update for id k, both without
\* error: the PUT's write came after the DELETE's.
DeletedBeforeUpdate(k) ==
    \E j, l \in 1..Len(calls) :
        /\ j < l
        /\ calls[j] = Call("DeleteTodo", k, "ok")
        /\ calls[l] = Call("UpdateTodo", k, "ok")

\* C23: persisted variant, a PUT and a DELETE for the same id k served at
\* the same time: the handlers' check-then-act sequences are not atomic.
\* Whenever the DELETE's write has run before the PUT's write, both lookups
\* had found k before the delete, the PUT is answered 200 with item k (the
\* title and done of its body), the DELETE is answered 200, and k is absent
\* from the store.
PutAfterConcurrentDelete ==
    variant = "persisted" =>
        \A k \in IDs(SeedTodos) :
            DeletedBeforeUpdate(k) =>
                /\ calls = <<Call("GetTodoByID", k, "present"),
                             Call("GetTodoByID", k, "present"),
                             Call("DeleteTodo", k, "ok"),
                             Call("UpdateTodo", k, "ok")>>
                /\ \E p \in Serving("PUT", k), d \in Serving("DELETE", k) :
                      LET bound == ShouldBindJSON(inflight[p].req.body).todo IN
                      /\ inflight[p].pc = "done"
                      /\ inflight[p].resp =
                            Response(StatusOK,
                                     Ptr(Todo(k, bound.Title, bound.Done)), <<>>)
                      /\ inflight[d].pc = "done"
                      /\ inflight[d].resp = Response(StatusOK, Nil, <<>>)
                /\ k \notin IDs(rows)

\* C23 witness: PUT /todos/1 was answered 200 with item 1 although
\* DELETE /todos/1 removed row 1 between the PUT's lookup and its write;
\* both have completed and row 1 is gone.
PutAnswered200ForDeletedRow ==
    /\ variant = "persisted"
    /\ DeletedBeforeUpdate(1)
    /\ inflight["g1"].req.method = "PUT"
    /\ inflight["g1"].resp = Response(StatusOK, Ptr(Todo(1, "New", FALSE)), <<>>)
    /\ inflight["g2"].req.method = "DELETE"
    /\ inflight["g2"].resp = Response(StatusOK, Nil, <<>>)
    /\ calls[1].op = "GetTodoByID" /\ calls[3].op = "DeleteTodo"
    /\ 1 \notin IDs(rows)


\* Both goroutines have served a POST and answered it 201.
BothCreated ==
    \A g \in Goroutines :
        /\ inflight[g].pc = "done"
        /\ inflight[g].req.method = "POST"
        /\ inflight[g].resp.status = StatusCreated

\* C24: in-memory variant, two POST requests served at the same time, the
\* read of len(todos) and the append being separate steps: two goroutines
\* that have both read the length before either appended hold the same id;
\* once both are answered 201, either they got the two next ids and both
\* items are stored, or they got the same id; and when only one of the two
\* items is in the list they got the same id.
ConcurrentPostsCollide ==
    variant = "memory" =>
        LET n == Len(SeedTodos)
            a == inflight["g1"]
            b == inflight["g2"] IN
        /\ (a.pc \in {"assigned", "appending"} /\ b.pc \in {"assigned", "appending"})
              => a.todo.ID = b.todo.ID
        /\ BothCreated =>
              /\ {a.resp.todo[1].ID, b.resp.todo[1].ID} \subseteq {n + 1, n + 2}
              /\ Len(todos) \in {n + 1, n + 2}
              /\ \/ a.resp.todo[1].ID = b.resp.todo[1].ID
                 \/ /\ UniqueIDs(todos)
                    /\ Len(todos) = n + 2
                    /\ {a.resp.todo[1], b.resp.todo[1]} =
                          {todos[n + 1], todos[n + 2]}
              /\ Len(todos) = n + 1 =>
                    /\ a.resp.todo[1].ID = b.resp.todo[1].ID
                    /\ todos[n + 1] \in {a.resp.todo[1], b.resp.todo[1]}

\* C24 witness: both POSTs were answered 201 with id 3, and the list holds
\* three items: the item of {"done": true} was appended and then lost to
\* the other append.
BothCreatedSameIDOneLost ==
    /\ variant = "memory"
    /\ BothCreated
    /\ inflight["g1"].resp.todo = Ptr(Todo(3, "New", FALSE))
    /\ inflight["g2"].resp.todo = Ptr(Todo(3, "", TRUE))
    /\ todos = Append(SeedTodos, Todo(3, "New", FALSE))


\* C25: in-memory variant: a PUT or DELETE for id k answered 200 acts on
\* one item only, the first in list order whose id is k: PUT overwrites the
\* title and done of that item and DELETE removes that item; every other
\* item, later items with id k included, stays as it was.
ActsOnFirstMatchOnly ==
    [][(/\ variant' = "memory"
        /\ req'.method \in {"PUT", "DELETE"}
        /\ resp'.status = StatusOK) =>
          LET k == toInt(req'.tok)
              bound == ShouldBindJSON(req'.body).todo IN
          \E i \in 1..Len(todos) :
              /\ todos[i].ID = k
              /\ \A j \in 1..(i - 1) : todos[j].ID # k
              /\ req'.method = "PUT" =>
                    /\ Len(todos') = Len(todos)
                    /\ todos'[i] = Todo(k, bound.Title, bound.Done)
                    /\ \A j \in 1..Len(todos) : j # i => todos'[j] = todos[j]
              /\ req'.method = "DELETE" =>
                    /\ Len(todos') = Len(todos) - 1
                    /\ \A j \in 1..(i - 1) : todos'[j] = todos[j]
                    /\ \A j \in i..Len(todos') : todos'[j] = todos[j + 1]]_vars

\* C25 witness: two items carried id 2 and a PUT of {"done": true} for id 2
\* changed the first of them only.
PutChangedFirstOfTwo ==
    /\ variant = "memory"
    /\ req.method = "PUT" /\ resp.status = StatusOK
    /\ todos = <<Todo(2, "", TRUE), Todo(2, "New", FALSE)>>


\* The last backend call of the request just served was a failed lookup.
LookupFailed ==
    calls # <<>> /\ calls[Len(calls)] = Call("GetTodoByID", PathID(req), "error")

\* C26: a DELETE of id k answered 200 removes exactly one item, an item
\* with id k, and every other item keeps its id, title and done and its
\* place among the others; a PUT answered 200 and every failed request
\* (400, 404, and 500 from a failed lookup) leave the number of items
\* unchanged.
DeleteRemovesExactlyOne ==
    [][/\ (req'.method = "DELETE" /\ resp'.status = StatusOK) =>
             /\ Len(Collection') = Len(Collection) - 1
             /\ \E i \in 1..Len(Collection) :
                   /\ Atoi(req'.tok) = [ok |-> TRUE, val |-> Collection[i].ID]
                   /\ Collection' = RemoveAt(Collection, i)
       /\ (req'.method = "PUT" /\ resp'.status = StatusOK) =>
             Len(Collection') = Len(Collection)
       /\ (req'.method # "none"
             /\ resp'.status \in {StatusBadRequest, StatusNotFound}) =>
             Len(Collection') = Len(Collection)
       /\ (req'.method # "none"
             /\ resp'.status = StatusInternalServerError /\ LookupFailed') =>
             Len(Collection') = Len(Collection)]_vars

\* C26 witness: DELETE /todos/1 was answered 200 and of the two rows the
\* store held, row 2 is left as it was.
DeletedOneOfTwo ==
    /\ variant = "persisted"
    /\ req = Request("DELETE", Token(1), NoBody)
    /\ resp.status = StatusOK
    /\ seq = 2
    /\ rows = <<Todo(2, "", TRUE)>>

=============================================================================
